---- MODULE Spec2Model ----
(***************************************************************************)
(* The two whisper adapters of btfm:                                       *)
(*   btfm/src/transcribe.py            load_model, transcribe              *)
(*   whisper-server/src/transcribe.py  load_model, transcribe,             *)
(*                                     transcribe_raw                      *)
(* Each module keeps one global, MODEL.  The whisper library is external:  *)
(* what each of its entry points does on a call (raise, or return some     *)
(* value) is drawn nondeterministically at the call (Spec), or fixed by a   *)
(* stub that returns one text of bounded length (SpecStub).                *)
(*                                                                         *)
(* A Python str is a sequence of characters; a character is a TLA+ string  *)
(* naming one code point ("A", " ", "U+2102", ...).                        *)
(***************************************************************************)
EXTENDS Integers, Sequences, FiniteSets, TLC

\* Longest text the stubbed library returns in SpecStub.
MaxLen == 3

----------------------------------------------------------------------------
(* Characters *)

UpperAZ == << "A", "B", "C", "D", "E", "F", "G", "H", "I", "J", "K", "L", "M",
              "N", "O", "P", "Q", "R", "S", "T", "U", "V", "W", "X", "Y", "Z" >>
LowerAZ == << "a", "b", "c", "d", "e", "f", "g", "h", "i", "j", "k", "l", "m",
              "n", "o", "p", "q", "r", "s", "t", "u", "v", "w", "x", "y", "z" >>
Digits == { "0", "1", "2", "3", "4", "5", "6", "7", "8", "9" }

Range(f) == { f[i] : i \in DOMAIN f }

\* U+2102 DOUBLE-STRUCK CAPITAL C: category Lu, str.isupper() is True, and
\* it has no lowercase mapping.  U+0130 LATIN CAPITAL LETTER I WITH DOT ABOVE
\* lowercases to "i" followed by U+0307 COMBINING DOT ABOVE.
UncasedUpper == { "U+2102" }
Whitespace == { " ", "\n" }

\* str.isupper() of one character.
IsUpper(c) == c \in Range(UpperAZ) \cup UncasedUpper \cup { "U+0130" }

\* str.isalnum() of one character.
IsAlnum(c) ==
    c \in Range(UpperAZ) \cup Range(LowerAZ) \cup Digits
          \cup UncasedUpper \cup { "U+0130" }

\* The characters the library's texts are made of in the explored runs.
Alphabet == { "A", "b", "_", "\"", " ", "U+2102", "U+0130" }

RECURSIVE StringsOfLen(_)
StringsOfLen(n) ==
    IF n = 0 THEN { << >> }
    ELSE { Append(s, c) : s \in StringsOfLen(n - 1), c \in Alphabet }

Strings(n) == UNION { StringsOfLen(k) : k \in 0..n }

----------------------------------------------------------------------------
(* str methods and the regular expression of whisper-server *)

\* str.lower() of one character: the characters it becomes.
LowerChar(c) ==
    IF \E i \in DOMAIN UpperAZ : UpperAZ[i] = c
    THEN << LowerAZ[CHOOSE i \in DOMAIN UpperAZ : UpperAZ[i] = c] >>
    ELSE IF c = "U+0130" THEN << "i", "U+0307" >>
    ELSE << c >>

\* str.lower()
RECURSIVE lower(_)
lower(s) ==
    IF s = << >> THEN << >> ELSE LowerChar(Head(s)) \o lower(Tail(s))

\* \w of the re module on str: alphanumeric or the underscore.
IsWordChar(c) == IsAlnum(c) \/ c = "_"

\* \s of the re module on str, and the characters str.strip() removes.
IsSpaceChar(c) == c \in Whitespace

\* Mutant: r'[^a-zA-Z0-9\s]'-like, the underscore matched too.
ALPHANUMERIC_REGEX_alnum(c) == ~IsAlnum(c) /\ ~IsSpaceChar(c)

\* ALPHANUMERIC_REGEX = re.compile(r'[^\w\s]'): whether it matches c.
ALPHANUMERIC_REGEX(c) == ~IsWordChar(c) /\ ~IsSpaceChar(c)

\* Mutant: sub(repl, s, count=1), only the first match replaced.
RECURSIVE ALPHANUMERIC_REGEX_sub_once(_, _)
ALPHANUMERIC_REGEX_sub_once(repl, s) ==
    IF s = << >> THEN << >>
    ELSE IF ALPHANUMERIC_REGEX(Head(s)) THEN repl \o Tail(s)
    ELSE << Head(s) >> \o ALPHANUMERIC_REGEX_sub_once(repl, Tail(s))

\* ALPHANUMERIC_REGEX.sub(repl, s): every match replaced by repl.
RECURSIVE ALPHANUMERIC_REGEX_sub(_, _)
ALPHANUMERIC_REGEX_sub(repl, s) ==
    IF s = << >> THEN << >>
    ELSE (IF ALPHANUMERIC_REGEX(Head(s)) THEN repl ELSE << Head(s) >>)
         \o ALPHANUMERIC_REGEX_sub(repl, Tail(s))

RECURSIVE lstrip(_)
lstrip(s) ==
    IF s # << >> /\ IsSpaceChar(Head(s)) THEN lstrip(Tail(s)) ELSE s

RECURSIVE rstrip(_)
rstrip(s) ==
    IF s # << >> /\ IsSpaceChar(s[Len(s)])
    THEN rstrip(SubSeq(s, 1, Len(s) - 1))
    ELSE s

\* str.strip()
strip(s) == rstrip(lstrip(s))

\* Mutant: the .strip() left out.
cleaned_text_nostrip(text) == ALPHANUMERIC_REGEX_sub(<< >>, lower(text))

\* cleaned_text = ALPHANUMERIC_REGEX.sub('', text.lower()).strip()
cleaned_text(text) == strip(ALPHANUMERIC_REGEX_sub(<< >>, lower(text)))

----------------------------------------------------------------------------
(* Python values, and json.dumps *)

PyNone == [t |-> "NoneType"]
PyStr(s) == [t |-> "str", v |-> s]
PyList(items) == [t |-> "list", v |-> items]
PyDict(keys, vals) == [t |-> "dict", k |-> keys, v |-> vals]
\* whisper.decoding.DecodingResult: a dataclass with a text attribute and no
\* __getitem__.
DecodingResult(s) == [t |-> "DecodingResult", text |-> s]

K_channel == << "c", "h", "a", "n", "n", "e", "l" >>
K_alternatives ==
    << "a", "l", "t", "e", "r", "n", "a", "t", "i", "v", "e", "s" >>
K_transcript == << "t", "r", "a", "n", "s", "c", "r", "i", "p", "t" >>
K_text == << "t", "e", "x", "t" >>

HasKey(d, key) == \E i \in DOMAIN d.k : d.k[i] = key
KeyIndex(d, key) == CHOOSE i \in DOMAIN d.k : d.k[i] = key

\* obj[key] for a str key: TypeError unless obj is a dict, KeyError when the
\* key is missing.
Subscript(obj, key) ==
    IF obj.t # "dict" THEN [kind |-> "raise", exc |-> "TypeError"]
    ELSE IF ~HasKey(obj, key) THEN [kind |-> "raise", exc |-> "KeyError"]
    ELSE [kind |-> "return", value |-> obj.v[KeyIndex(obj, key)]]

\* d[key] = value on a dict that has the key.
DictSet(d, key, value) ==
    [d EXCEPT !.v = [d.v EXCEPT ![KeyIndex(d, key)] = value]]

\* l[0] = value
ListSet0(l, value) == [l EXCEPT !.v = [l.v EXCEPT ![1] = value]]

\* The \uXXXX digits json.dumps writes for a character outside ASCII.
HexDigits(c) ==
    CASE c = "U+2102" -> << "2", "1", "0", "2" >>
      [] c = "U+0130" -> << "0", "1", "3", "0" >>
      [] c = "U+0307" -> << "0", "3", "0", "7" >>

\* json.encoder.py_encode_basestring_ascii, one character.
EscapeChar(c) ==
    CASE c = "\"" -> << "\\", "\"" >>
      [] c = "\\" -> << "\\", "\\" >>
      [] c = "\n" -> << "\\", "n" >>
      [] c \in { "U+2102", "U+0130", "U+0307" } -> << "\\", "u" >> \o HexDigits(c)
      [] OTHER -> << c >>

RECURSIVE EscapeStr(_)
EscapeStr(s) ==
    IF s = << >> THEN << >> ELSE EscapeChar(Head(s)) \o EscapeStr(Tail(s))

\* json.dumps(v) with the default separators (", " and ": ") and
\* ensure_ascii=True.
RECURSIVE json_dumps(_)
RECURSIVE DumpsItems(_)
RECURSIVE DumpsPairs(_, _)
DumpsItems(items) ==
    IF items = << >> THEN << >>
    ELSE json_dumps(Head(items))
         \o (IF Len(items) > 1 THEN << ",", " " >> ELSE << >>)
         \o DumpsItems(Tail(items))
DumpsPairs(keys, vals) ==
    IF keys = << >> THEN << >>
    ELSE << "\"" >> \o EscapeStr(Head(keys)) \o << "\"", ":", " " >>
         \o json_dumps(Head(vals))
         \o (IF Len(keys) > 1 THEN << ",", " " >> ELSE << >>)
         \o DumpsPairs(Tail(keys), Tail(vals))
json_dumps(v) ==
    CASE v.t = "str" -> << "\"" >> \o EscapeStr(v.v) \o << "\"" >>
      [] v.t = "NoneType" -> << "n", "u", "l", "l" >>
      [] v.t = "list" -> << "[" >> \o DumpsItems(v.v) \o << "]" >>
      [] v.t = "dict" -> << "{" >> \o DumpsPairs(v.k, v.v) \o << "}" >>

----------------------------------------------------------------------------
(* The whisper library, as the adapters see it *)

\* MODEL = None
None == "None"
\* The handles whisper.load_model can return.
Handles == { "model_1", "model_2" }
Paths == { "base.pt", "missing.pt" }
Audio == { "a.wav", "b.wav" }

Raise == [kind |-> "raise", exc |-> "Exception"]
Return(value) == [kind |-> "return", value |-> value]

\* whisper.load_model(path): raises, or returns a model.
LoadOutcomes == { Raise } \cup { Return(h) : h \in Handles }

\* The texts the library returns in Spec: "", "Hi", " a_B ", "\"!",
\* U+2102 U+0130 "\n" "b", and the example of the cleaning policy,
\* "Hello, World! 123".
SampleStrings ==
    { << >>,
      << "H", "i" >>,
      << " ", "a", "_", "B", " " >>,
      << "\"", "!" >>,
      << "U+2102", "U+0130", "\n", "b" >>,
      << "H", "e", "l", "l", "o", ",", " ", "W", "o", "r", "l", "d", "!", " ",
         "1", "2", "3" >> }

\* What a library text can be: a str, or (a stub's) value that is no str.
Texts == { PyStr(s) : s \in SampleStrings } \cup { PyNone }

\* whisper.transcribe(model, audio, verbose, fp16): raises, or returns a dict,
\* which a stub may leave without "text".
TranscribeOutcomes ==
    { Raise } \cup { Return(PyDict(<< K_text >>, << x >>)) : x \in Texts }
              \cup { Return(PyDict(<< >>, << >>)) }

\* whisper.pad_or_trim, whisper.log_mel_spectrogram, Tensor.to,
\* whisper.DecodingOptions and whisper.decode in turn: the first that raises,
\* or none and what decode returns.  The library's decode returns a
\* DecodingResult; a stub may return a dict.
RawStages ==
    << "pad_or_trim", "log_mel_spectrogram", "to", "DecodingOptions", "decode" >>
RawOutcomes ==
    { [failAt |-> f] : f \in Range(RawStages) }
    \cup { [failAt |-> "none", value |-> PyDict(<< K_text >>, << x >>)] : x \in Texts }
    \cup { [failAt |-> "none", value |-> DecodingResult(s)] : s \in SampleStrings }

----------------------------------------------------------------------------
(* btfm/src/transcribe.py *)

\* Mutant: the load wrapped in try/except like transcribe.
btfm_load_model_caught(MODEL, path, lib) ==
    [ MODEL |-> IF lib.kind = "return" THEN lib.value ELSE MODEL,
      ret |-> Return(PyNone),
      invoked |-> << [fn |-> "whisper.load_model", path |-> path,
                      in_memory |-> FALSE] >>,
      printed |-> IF lib.kind = "return" THEN "" ELSE "exception" ]

\* load_model(path): MODEL = whisper.load_model(path), nothing caught.
btfm_load_model(MODEL, path, lib) ==
    [ MODEL |-> IF lib.kind = "return" THEN lib.value ELSE MODEL,
      ret |-> IF lib.kind = "return" THEN Return(PyNone) ELSE Raise,
      invoked |-> << [fn |-> "whisper.load_model", path |-> path,
                      in_memory |-> FALSE] >>,
      printed |-> "" ]

\* Mutant: text = result["text"].strip()
btfm_text_stripped(lib) ==
    IF lib.kind = "raise" THEN PyStr(<< >>)
    ELSE IF Subscript(lib.value, K_text).kind = "raise" THEN PyStr(<< >>)
    ELSE IF Subscript(lib.value, K_text).value.t # "str" THEN PyStr(<< >>)
    ELSE PyStr(strip(Subscript(lib.value, K_text).value.v))

\* The value transcribe returns once MODEL is set: result["text"], or ""
\* when the call or the subscript raised.
btfm_text(lib) ==
    IF lib.kind = "raise" THEN PyStr(<< >>)
    ELSE IF Subscript(lib.value, K_text).kind = "raise" THEN PyStr(<< >>)
    ELSE Subscript(lib.value, K_text).value

\* Mutant: no MODEL check and no try/except around the inference call.
btfm_transcribe_notry(MODEL, audio, fp16, lib) ==
    [ MODEL |-> MODEL,
      ret |-> IF lib.kind = "raise" \/ Subscript(lib.value, K_text).kind = "raise"
              THEN Raise
              ELSE Return(Subscript(lib.value, K_text).value),
      invoked |-> << [fn |-> "whisper.transcribe", model |-> MODEL,
                      audio |-> audio, verbose |-> PyNone, fp16 |-> fp16] >>,
      printed |-> "" ]

\* transcribe(audio, fp16=False)
btfm_transcribe(MODEL, audio, fp16, lib) ==
    IF MODEL = None
    THEN [ MODEL |-> MODEL,
           ret |-> Return(PyStr(<< >>)),
           invoked |-> << >>,
           printed |-> "Programmer error" ]
    ELSE [ MODEL |-> MODEL,
           ret |-> Return(btfm_text(lib)),
           invoked |-> << [fn |-> "whisper.transcribe", model |-> MODEL,
                           audio |-> audio, verbose |-> PyNone,
                           fp16 |-> fp16] >>,
           printed |-> IF lib.kind = "raise"
                          \/ Subscript(lib.value, K_text).kind = "raise"
                       THEN "exception" ELSE "" ]

----------------------------------------------------------------------------
(* whisper-server/src/transcribe.py *)

\* Mutant: MODEL reset to None when the load raises.
ws_load_model_reset(MODEL, path, lib) ==
    [ MODEL |-> IF lib.kind = "return" THEN lib.value ELSE None,
      ret |-> IF lib.kind = "return" THEN Return(PyNone) ELSE Raise,
      invoked |-> << [fn |-> "whisper.load_model", path |-> path,
                      in_memory |-> TRUE] >>,
      printed |-> "" ]

\* load_model(path): MODEL = whisper.load_model(path, in_memory=True),
\* nothing caught.
ws_load_model(MODEL, path, lib) ==
    [ MODEL |-> IF lib.kind = "return" THEN lib.value ELSE MODEL,
      ret |-> IF lib.kind = "return" THEN Return(PyNone) ELSE Raise,
      invoked |-> << [fn |-> "whisper.load_model", path |-> path,
                      in_memory |-> TRUE] >>,
      printed |-> "" ]

\* response = {"channel": {"alternatives": [{"transcript": ""}]}}
ResponseLiteral ==
    PyDict(<< K_channel >>,
           << PyDict(<< K_alternatives >>,
                     << PyList(<< PyDict(<< K_transcript >>,
                                         << PyStr(<< >>) >>) >>) >>) >>)

\* response["channel"]["alternatives"][0]["transcript"] = value
SetTranscript(response, value) ==
    LET channel == Subscript(response, K_channel).value
        alternatives == Subscript(channel, K_alternatives).value
        first == alternatives.v[1]
    IN  DictSet(response, K_channel,
            DictSet(channel, K_alternatives,
                ListSet0(alternatives,
                    DictSet(first, K_transcript, value))))

\* ALPHANUMERIC_REGEX.sub('', result["text"].lower()).strip(): TypeError or
\* KeyError from the subscript, AttributeError from .lower() on a value that
\* is no str, else the cleaned str.
CleanResult(result) ==
    LET sub == Subscript(result, K_text)
    IN  IF sub.kind = "raise" THEN sub
        ELSE IF sub.value.t # "str"
             THEN [kind |-> "raise", exc |-> "AttributeError"]
             ELSE Return(PyStr(cleaned_text(sub.value.v)))

\* The body of the try block of transcribe: the cleaned text, or raise.
ws_try(lib) ==
    IF lib.kind = "raise" THEN lib ELSE CleanResult(lib.value)

\* Mutant: the transcript assigned from result["text"] before it is cleaned,
\* and again after.
ws_transcribe_early(MODEL, audio, lib) ==
    LET body == ws_try(lib)
        early == IF lib.kind = "return"
                    /\ Subscript(lib.value, K_text).kind = "return"
                 THEN SetTranscript(ResponseLiteral,
                                    Subscript(lib.value, K_text).value)
                 ELSE ResponseLiteral
        response == IF body.kind = "return"
                    THEN SetTranscript(early, body.value)
                    ELSE early
    IN  [ MODEL |-> MODEL,
          ret |-> Return(PyStr(json_dumps(response))),
          invoked |-> << [fn |-> "whisper.transcribe", model |-> MODEL,
                          audio |-> audio, verbose |-> PyNone,
                          fp16 |-> FALSE] >>,
          printed |-> IF body.kind = "raise" THEN "exception" ELSE "" ]

\* transcribe(audio)
ws_transcribe(MODEL, audio, lib) ==
    LET body == ws_try(lib)
        response == IF body.kind = "return"
                    THEN SetTranscript(ResponseLiteral, body.value)
                    ELSE ResponseLiteral
    IN  [ MODEL |-> MODEL,
          ret |-> Return(PyStr(json_dumps(response))),
          invoked |-> << [fn |-> "whisper.transcribe", model |-> MODEL,
                          audio |-> audio, verbose |-> PyNone,
                          fp16 |-> FALSE] >>,
          printed |-> IF body.kind = "raise" THEN "exception" ELSE "" ]

StageIndex(f) == CHOOSE i \in DOMAIN RawStages : RawStages[i] = f

\* The stage of transcribe_raw's try block that raises ("MODEL.device" when
\* MODEL is None and the two calls before it returned), or "none".
RawFailAt(MODEL, lib) ==
    IF MODEL = None /\ lib.failAt \notin { "pad_or_trim", "log_mel_spectrogram" }
    THEN "MODEL.device"
    ELSE lib.failAt

\* The body of the try block of transcribe_raw: the cleaned text, or raise.
ws_try_raw(MODEL, lib) ==
    IF RawFailAt(MODEL, lib) # "none"
    THEN [kind |-> "raise", exc |-> RawFailAt(MODEL, lib)]
    ELSE CleanResult(lib.value)

\* The library entry points transcribe_raw calls, in order.
RawInvoked(MODEL, lib) ==
    LET last == CASE RawFailAt(MODEL, lib) = "MODEL.device" -> 2
                  [] RawFailAt(MODEL, lib) = "none" -> Len(RawStages)
                  [] OTHER -> StageIndex(RawFailAt(MODEL, lib))
    IN  [ i \in 1..last |->
            IF RawStages[i] = "decode"
            THEN [fn |-> "decode", model |-> MODEL, fp16 |-> FALSE]
            ELSE [fn |-> RawStages[i]] ]

\* Mutant: no try/except in transcribe_raw.
ws_transcribe_raw_notry(MODEL, audio, lib) ==
    LET body == ws_try_raw(MODEL, lib)
    IN  [ MODEL |-> MODEL,
          ret |-> IF body.kind = "return"
                  THEN Return(PyStr(json_dumps(
                           SetTranscript(ResponseLiteral, body.value))))
                  ELSE Raise,
          invoked |-> RawInvoked(MODEL, lib),
          printed |-> "" ]

\* transcribe_raw(audio)
ws_transcribe_raw(MODEL, audio, lib) ==
    LET body == ws_try_raw(MODEL, lib)
        response == IF body.kind = "return"
                    THEN SetTranscript(ResponseLiteral, body.value)
                    ELSE ResponseLiteral
    IN  [ MODEL |-> MODEL,
          ret |-> Return(PyStr(json_dumps(response))),
          invoked |-> RawInvoked(MODEL, lib),
          printed |-> IF body.kind = "raise" THEN "exception" ELSE "" ]

----------------------------------------------------------------------------
(* The state machine *)

VARIABLES
    btfm_MODEL,  \* MODEL of btfm/src/transcribe.py
    ws_MODEL,    \* MODEL of whisper-server/src/transcribe.py
    call,        \* the last call: module, function, MODEL at entry, arguments,
                 \* and what the library did in it
    ret,         \* what that call gave its caller: a return value, or raise
    invoked,     \* the library entry points that call invoked, in order
    printed,     \* what that call printed
    stub_text    \* SpecStub: the text the stubbed library returns

vars == << btfm_MODEL, ws_MODEL, call, ret, invoked, printed, stub_text >>

NoCall == [module |-> "", fn |-> ""]

\* Both modules imported, nothing called yet.
Init ==
    /\ btfm_MODEL = None
    /\ ws_MODEL = None
    /\ call = NoCall
    /\ ret = Return(PyNone)
    /\ invoked = << >>
    /\ printed = ""
    /\ stub_text = << >>

\* A call of btfm's load_model(path), the library doing lib.
Btfm_load_model(paths, libs) ==
    \E path \in paths, lib \in libs :
        \E r \in { btfm_load_model(btfm_MODEL, path, lib) } :
            /\ btfm_MODEL' = r.MODEL
            /\ call' = [module |-> "btfm", fn |-> "load_model",
                        MODEL |-> btfm_MODEL, path |-> path, lib |-> lib]
            /\ ret' = r.ret
            /\ invoked' = r.invoked
            /\ printed' = r.printed
            /\ UNCHANGED << ws_MODEL, stub_text >>

\* A call of btfm's transcribe(audio, fp16), the library doing lib.
Btfm_transcribe(audios, libs) ==
    \E audio \in audios, fp16 \in BOOLEAN, lib \in libs :
        \E r \in { btfm_transcribe(btfm_MODEL, audio, fp16, lib) } :
            /\ btfm_MODEL' = r.MODEL
            /\ call' = [module |-> "btfm", fn |-> "transcribe",
                        MODEL |-> btfm_MODEL, audio |-> audio,
                        fp16 |-> fp16, lib |-> lib]
            /\ ret' = r.ret
            /\ invoked' = r.invoked
            /\ printed' = r.printed
            /\ UNCHANGED << ws_MODEL, stub_text >>

\* A call of whisper-server's load_model(path), the library doing lib.
Ws_load_model(paths, libs) ==
    \E path \in paths, lib \in libs :
        \E r \in { ws_load_model(ws_MODEL, path, lib) } :
            /\ ws_MODEL' = r.MODEL
            /\ call' = [module |-> "whisper-server", fn |-> "load_model",
                        MODEL |-> ws_MODEL, path |-> path, lib |-> lib]
            /\ ret' = r.ret
            /\ invoked' = r.invoked
            /\ printed' = r.printed
            /\ UNCHANGED << btfm_MODEL, stub_text >>

\* A call of whisper-server's transcribe(audio), the library doing lib.
Ws_transcribe(audios, libs) ==
    \E audio \in audios, lib \in libs :
        \E r \in { ws_transcribe(ws_MODEL, audio, lib) } :
            /\ ws_MODEL' = r.MODEL
            /\ call' = [module |-> "whisper-server", fn |-> "transcribe",
                        MODEL |-> ws_MODEL, audio |-> audio, lib |-> lib]
            /\ ret' = r.ret
            /\ invoked' = r.invoked
            /\ printed' = r.printed
            /\ UNCHANGED << btfm_MODEL, stub_text >>

\* A call of whisper-server's transcribe_raw(audio), the library doing lib.
Ws_transcribe_raw(audios, libs) ==
    \E audio \in audios, lib \in libs :
        \E r \in { ws_transcribe_raw(ws_MODEL, audio, lib) } :
            /\ ws_MODEL' = r.MODEL
            /\ call' = [module |-> "whisper-server", fn |-> "transcribe_raw",
                        MODEL |-> ws_MODEL, audio |-> audio, lib |-> lib]
            /\ ret' = r.ret
            /\ invoked' = r.invoked
            /\ printed' = r.printed
            /\ UNCHANGED << btfm_MODEL, stub_text >>

\* Any sequence of calls of the five functions, the library free at each call.
Next ==
    \/ Btfm_load_model(Paths, LoadOutcomes)
    \/ Btfm_transcribe(Audio, TranscribeOutcomes)
    \/ Ws_load_model(Paths, LoadOutcomes)
    \/ Ws_transcribe(Audio, TranscribeOutcomes)
    \/ Ws_transcribe_raw(Audio, RawOutcomes)

Spec == Init /\ [][Next]_vars

----------------------------------------------------------------------------
(* The adapters over a stubbed library: every inference call returns a dict *)
(* whose "text" is stub_text, one str of at most MaxLen characters.         *)

StubResult == PyDict(<< K_text >>, << PyStr(stub_text) >>)
StubPaths == { "base.pt" }
StubAudio == { "a.wav" }
\* The stubbed load raises, or returns the one stub model.
StubLoadOutcomes == { Raise, Return("model_1") }

InitStub ==
    /\ btfm_MODEL = None
    /\ ws_MODEL = None
    /\ call = NoCall
    /\ ret = Return(PyNone)
    /\ invoked = << >>
    /\ printed = ""
    /\ stub_text \in Strings(MaxLen)

NextStub ==
    \/ Btfm_load_model(StubPaths, StubLoadOutcomes)
    \/ Btfm_transcribe(StubAudio, { Return(StubResult) })
    \/ Ws_load_model(StubPaths, StubLoadOutcomes)
    \/ Ws_transcribe(StubAudio, { Return(StubResult) })
    \/ Ws_transcribe_raw(StubAudio, { [failAt |-> "none", value |-> StubResult] })

SpecStub == InitStub /\ [][NextStub]_vars

----------------------------------------------------------------------------
(* Reading a returned JSON text back, as a caller of whisper-server does *)

\* {"channel": {"alternatives": [{"transcript": "
ShapePrefix ==
    << "{", "\"", "c", "h", "a", "n", "n", "e", "l", "\"", ":", " ",
       "{", "\"", "a", "l", "t", "e", "r", "n", "a", "t", "i", "v", "e", "s",
       "\"", ":", " ", "[",
       "{", "\"", "t", "r", "a", "n", "s", "c", "r", "i", "p", "t", "\"", ":",
       " ", "\"" >>
\* "}]}}
ShapeSuffix == << "\"", "}", "]", "}", "}" >>

\* The characters of j between ShapePrefix and ShapeSuffix.
Body(j) == SubSeq(j, Len(ShapePrefix) + 1, Len(j) - Len(ShapeSuffix))

HexChars == Digits \cup { "a", "b", "c", "d", "e", "f" }

\* b is the inside of one JSON string: no bare quote, backslash or newline,
\* and every backslash starts an escape.
RECURSIVE ValidBody(_)
ValidBody(b) ==
    IF b = << >> THEN TRUE
    ELSE IF Head(b) = "\\"
    THEN /\ Len(b) >= 2
         /\ \/ b[2] \in { "\"", "\\", "n" } /\ ValidBody(SubSeq(b, 3, Len(b)))
            \/ /\ b[2] = "u"
               /\ Len(b) >= 6
               /\ \A i \in 3..6 : b[i] \in HexChars
               /\ ValidBody(SubSeq(b, 7, Len(b)))
    ELSE Head(b) \notin { "\"", "\n" } /\ ValidBody(Tail(b))

\* j is exactly {"channel": {"alternatives": [{"transcript": "<string>"}]}}
HasShape(j) ==
    /\ Len(j) >= Len(ShapePrefix) + Len(ShapeSuffix)
    /\ SubSeq(j, 1, Len(ShapePrefix)) = ShapePrefix
    /\ SubSeq(j, Len(j) - Len(ShapeSuffix) + 1, Len(j)) = ShapeSuffix
    /\ ValidBody(Body(j))

CodePoint(h) ==
    CASE h = << "2", "1", "0", "2" >> -> "U+2102"
      [] h = << "0", "1", "3", "0" >> -> "U+0130"
      [] h = << "0", "3", "0", "7" >> -> "U+0307"
      [] OTHER -> "U+????"

\* The str a JSON string body stands for.
RECURSIVE Unescape(_)
Unescape(b) ==
    IF b = << >> THEN << >>
    ELSE IF Head(b) = "\\"
    THEN IF b[2] = "u"
         THEN << CodePoint(SubSeq(b, 3, 6)) >> \o Unescape(SubSeq(b, 7, Len(b)))
         ELSE << (IF b[2] = "n" THEN "\n" ELSE b[2]) >>
              \o Unescape(SubSeq(b, 3, Len(b)))
    ELSE << Head(b) >> \o Unescape(Tail(b))

\* channel.alternatives[0].transcript of the JSON text the last call returned.
Transcript == Unescape(Body(ret.value.v))

InBtfm(fn) == call.module = "btfm" /\ call.fn = fn
InWs(fn) == call.module = "whisper-server" /\ call.fn = fn
WsTranscribing == InWs("transcribe") \/ InWs("transcribe_raw")

\* The library calls of the last transcribe/transcribe_raw all returned.
InferenceReturned ==
    IF call.fn = "transcribe_raw"
    THEN call.MODEL # None /\ call.lib.failAt = "none"
    ELSE call.lib.kind = "return"

\* What inference returned in the last call.
Result == call.lib.value

\* result["text"] can be read and is a str.
TextIsStr ==
    /\ Result.t = "dict"
    /\ \E i \in DOMAIN Result.k : Result.k[i] = K_text /\ Result.v[i].t = "str"

\* That str.
ResultText ==
    (Result.v[CHOOSE i \in DOMAIN Result.k : Result.k[i] = K_text]).v

\* result["text"] can be read.
TextReadable ==
    Result.t = "dict" /\ \E i \in DOMAIN Result.k : Result.k[i] = K_text

\* {"channel": {"alternatives": [{"transcript": ""}]}}
EmptyShape == ShapePrefix \o ShapeSuffix

----------------------------------------------------------------------------
(* Claims *)

\* C1: btfm's transcribe never raises; it returns "" when MODEL is None, when
\* the inference call raises and when reading result["text"] raises; and with
\* MODEL None it invokes no library entry point.
C1_FailSoft ==
    InBtfm("transcribe") =>
        /\ ret.kind = "return"
        /\ (call.MODEL = None \/ call.lib.kind = "raise" \/ ~TextReadable)
               => ret.value = PyStr(<< >>)
        /\ call.MODEL = None => invoked = << >>

C1_Witness ==
    /\ InBtfm("transcribe")
    /\ call.MODEL # None
    /\ call.lib.kind = "raise"
    /\ invoked # << >>
    /\ ret = Return(PyStr(<< >>))

\* C2: a whisper-server transcribe or transcribe_raw call in which any step
\* raised (a library call, MODEL.device on None, the subscript, .lower())
\* returns the JSON shape with the transcript "".
C2_EmptyOnException ==
    (WsTranscribing /\ (~InferenceReturned \/ ~TextIsStr))
        => ret = Return(PyStr(EmptyShape))

C2_Witness ==
    /\ InWs("transcribe_raw")
    /\ call.MODEL # None
    /\ call.lib.failAt = "decode"
    /\ printed = "exception"
    /\ ret = Return(PyStr(EmptyShape))

\* C3: every whisper-server transcribe or transcribe_raw call returns, and
\* what it returns is a JSON text of exactly the shape
\* {"channel": {"alternatives": [{"transcript": <string>}]}}.
C3_Shape ==
    WsTranscribing =>
        /\ ret.kind = "return"
        /\ ret.value.t = "str"
        /\ HasShape(ret.value.v)

C3_Witness ==
    /\ InWs("transcribe")
    /\ HasShape(ret.value.v)
    /\ Transcript = << "U+2102", "i", "\n", "b" >>

\* C4, as claimed: the transcript of whisper-server's transcribe holds only
\* alphanumeric and whitespace characters (no underscore either), no
\* uppercase letter, and no whitespace at either end.
C4_Original ==
    InWs("transcribe") =>
        /\ \A i \in DOMAIN Transcript :
               /\ IsAlnum(Transcript[i]) \/ IsSpaceChar(Transcript[i])
               /\ ~IsUpper(Transcript[i])
        /\ Transcript # << >> =>
               /\ ~IsSpaceChar(Transcript[1])
               /\ ~IsSpaceChar(Transcript[Len(Transcript)])

\* C4, amended: the transcript of whisper-server's transcribe holds only word
\* characters (alphanumeric or the underscore, which is kept) and whitespace,
\* no character that str.lower() changes, and no whitespace at either end.
C4_Amended ==
    InWs("transcribe") =>
        /\ \A i \in DOMAIN Transcript :
               /\ IsWordChar(Transcript[i]) \/ IsSpaceChar(Transcript[i])
               /\ LowerChar(Transcript[i]) = << Transcript[i] >>
        /\ Transcript # << >> =>
               /\ ~IsSpaceChar(Transcript[1])
               /\ ~IsSpaceChar(Transcript[Len(Transcript)])

C4_Witness ==
    /\ InWs("transcribe")
    /\ stub_text = << " ", "A", "_" >>
    /\ Transcript = << "a", "_" >>

\* The text of what inference returned: result["text"] of a dict, or the text
\* attribute of a DecodingResult.
HasModelText == Result.t = "DecodingResult" \/ TextIsStr
ModelText == IF Result.t = "DecodingResult" THEN Result.text ELSE ResultText

\* C5: when inference succeeds, transcribe and transcribe_raw both give the
\* transcript lower-cased, with every character outside \w and \s removed,
\* then stripped: the same function of the model's text.
C5_SameCleaning ==
    (WsTranscribing /\ InferenceReturned /\ HasModelText)
        => Transcript = cleaned_text(ModelText)

\* C6: cleaning a transcript again leaves it as it is:
\* clean(clean(s)) = clean(s) for every text s the model returns.
C6_Idempotent ==
    WsTranscribing => cleaned_text(Transcript) = Transcript

C6_Witness ==
    /\ InWs("transcribe_raw")
    /\ stub_text = << "\"", "A", " " >>
    /\ Transcript = << "a" >>

\* C7: in both modules load_model raises to its caller exactly when the
\* library's load raises, while transcribe and transcribe_raw always return.
C7_LoadFailHard ==
    /\ call.fn = "load_model"
           => (ret.kind = "raise" <=> call.lib.kind = "raise")
    /\ call.fn \in { "transcribe", "transcribe_raw" } => ret.kind = "return"

C7_Witness ==
    /\ InBtfm("load_model")
    /\ call.lib.kind = "raise"
    /\ ret.kind = "raise"
    /\ ws_MODEL # None

\* The text the last transcribe gave its caller: the str returned (btfm), the
\* transcript of the JSON returned (whisper-server).
ReturnedText == IF call.module = "btfm" THEN ret.value.v ELSE Transcript

Transcribed ==
    /\ InBtfm("transcribe") \/ InWs("transcribe")
    /\ call.MODEL # None
    /\ stub_text # << >>

\* C8, as claimed: with a model loaded, transcribe returns non-empty text
\* whenever the stub's text is non-empty, in both modules.
C8_Original == Transcribed => ReturnedText # << >>

\* C8, amended: with a model loaded and a non-empty stub text, btfm's
\* transcribe returns non-empty text, and whisper-server's transcript is
\* non-empty exactly when the text holds a word character.
C8_Amended ==
    Transcribed =>
        IF call.module = "btfm"
        THEN ReturnedText # << >>
        ELSE ReturnedText # << >>
                 <=> \E i \in DOMAIN stub_text : IsWordChar(stub_text[i])

C8_Witness ==
    /\ InWs("transcribe")
    /\ call.MODEL # None
    /\ stub_text = << "\"", "_", " " >>
    /\ ReturnedText = << "_" >>

\* C9: with MODEL set and result["text"] read, btfm's transcribe returns that
\* value unchanged, and whisper.transcribe was called once, with MODEL and
\* with the caller's fp16.
C9_RawText ==
    (InBtfm("transcribe") /\ call.MODEL # None
         /\ call.lib.kind = "return" /\ TextReadable)
        => /\ ret = Return(Result.v[CHOOSE i \in DOMAIN Result.k :
                                        Result.k[i] = K_text])
           /\ Len(invoked) = 1
           /\ invoked[1].model = call.MODEL
           /\ invoked[1].audio = call.audio
           /\ invoked[1].fp16 = call.fp16

C9_Witness ==
    /\ InBtfm("transcribe")
    /\ call.MODEL # None
    /\ call.fp16
    /\ invoked[1].fp16
    /\ ret = Return(PyStr(<< " ", "a", "_", "B", " " >>))

\* The step is a load_model call of module m whose load returned.
Loaded(m) ==
    call'.module = m /\ call'.fn = "load_model" /\ call'.lib.kind = "return"

\* C10: a MODEL changes only in a load_model call of its module whose load
\* returned, and then holds the handle returned; no other call changes it,
\* and a MODEL that is set is never None again.
C10_Frame ==
    [][ /\ btfm_MODEL' # btfm_MODEL => Loaded("btfm")
        /\ ws_MODEL' # ws_MODEL => Loaded("whisper-server")
        /\ Loaded("btfm") => btfm_MODEL' = call'.lib.value
        /\ Loaded("whisper-server") => ws_MODEL' = call'.lib.value
        /\ btfm_MODEL # None => btfm_MODEL' # None
        /\ ws_MODEL # None => ws_MODEL' # None ]_vars

C10_Witness ==
    /\ InWs("load_model")
    /\ call.MODEL = "model_1"
    /\ call.lib.kind = "return"
    /\ ws_MODEL = "model_2"

====
